---- MODULE Spec2Model ----
(***************************************************************************)
(* Model of hegel's payload layer: the http::Response builder              *)
(* (src/src/http/resp.rs) and the request accessors (src/src/http/req.rs,  *)
(* src/src/auth/req.rs).                                                   *)
(*                                                                         *)
(* A Rust String is modelled as what it is, a sequence of bytes holding    *)
(* valid UTF-8; a Vec<u8> is a sequence of bytes.  Option<T> is <<>> for   *)
(* None and <<v>> for Some(v).  A HashMap is a function on its key set.    *)
(* Header keys and MIME strings are only ever compared, so they are kept   *)
(* as TLA+ strings.                                                        *)
(***************************************************************************)
EXTENDS Integers, Sequences, FiniteSets, TLC

VARIABLES pc, resp, last, rpc, req, called, ret, memo

vars == <<pc, resp, last, rpc, req, called, ret, memo>>

respVars == <<pc, resp, last>>

reqVars == <<rpc, req, called, ret, memo>>

-----------------------------------------------------------------------------
(* Bounds of the model. *)

\* longest byte vector handed to new_file / body_file
MaxFileLen == 3

\* the length of the one long file handed to new_file / body_file
LongFileLen == 33

\* longest stored request body, in characters
MaxBodyLen == 4

\* longest cookie list of a request
MaxCookies == 4

-----------------------------------------------------------------------------
(* Generic helpers. *)

Min(a, b) == IF a < b THEN a ELSE b

None == <<>>

Some(v) == <<v>>

SeqsUpTo(S, n) == UNION {[1..k -> S] : k \in 0..n}

EmptyMap == [x \in {} |-> <<>>]

\* HashMap::insert: an upsert, the last write to a key wins
Insert(m, k, v) == [x \in DOMAIN m \cup {k} |-> IF x = k THEN v ELSE m[x]]

-----------------------------------------------------------------------------
(* The base64 codec (crate base64, standard alphabet, with padding).       *)

\* the padding symbol '='
B64Pad == 61

\* the standard alphabet: A-Z, a-z, 0-9, '+', '/'
B64Char(i) ==
    IF i < 26 THEN 65 + i
    ELSE IF i < 52 THEN 97 + (i - 26)
    ELSE IF i < 62 THEN 48 + (i - 52)
    ELSE IF i = 62 THEN 43 ELSE 47

\* the 6-bit value of a symbol, -1 for a byte outside the alphabet
B64Val(c) ==
    IF c >= 65 /\ c <= 90 THEN c - 65
    ELSE IF c >= 97 /\ c <= 122 THEN c - 97 + 26
    ELSE IF c >= 48 /\ c <= 57 THEN c - 48 + 52
    ELSE IF c = 43 THEN 62
    ELSE IF c = 47 THEN 63
    ELSE -1

RECURSIVE B64Encode(_)
\* base64::encode: 3 bytes -> 4 symbols, the tail padded with '='
B64Encode(b) ==
    IF Len(b) = 0 THEN <<>>
    ELSE IF Len(b) = 1 THEN
        << B64Char(b[1] \div 4), B64Char((b[1] % 4) * 16), B64Pad, B64Pad >>
    ELSE IF Len(b) = 2 THEN
        << B64Char(b[1] \div 4),
           B64Char((b[1] % 4) * 16 + b[2] \div 16),
           B64Char((b[2] % 16) * 4), B64Pad >>
    ELSE
        << B64Char(b[1] \div 4),
           B64Char((b[1] % 4) * 16 + b[2] \div 16),
           B64Char((b[2] % 16) * 4 + b[3] \div 64),
           B64Char(b[3] % 64) >> \o B64Encode(SubSeq(b, 4, Len(b)))

RECURSIVE B64Bytes(_)
\* the bytes of a sequence of 6-bit values (4 -> 3, tail of 3 -> 2, of 2 -> 1)
B64Bytes(v) ==
    IF Len(v) < 2 THEN <<>>
    ELSE IF Len(v) = 2 THEN << v[1] * 4 + v[2] \div 16 >>
    ELSE IF Len(v) = 3 THEN
        << v[1] * 4 + v[2] \div 16, (v[2] % 16) * 16 + v[3] \div 4 >>
    ELSE
        << v[1] * 4 + v[2] \div 16,
           (v[2] % 16) * 16 + v[3] \div 4,
           (v[3] % 4) * 64 + v[4] >> \o B64Bytes(SubSeq(v, 5, Len(v)))

\* number of trailing '=' of s
PadCount(s) ==
    IF Len(s) >= 1 /\ s[Len(s)] = B64Pad
    THEN IF Len(s) >= 2 /\ s[Len(s) - 1] = B64Pad
         THEN IF Len(s) >= 3 /\ s[Len(s) - 2] = B64Pad THEN 3 ELSE 2
         ELSE 1
    ELSE 0

\* base64::decode: [ok |-> TRUE, bytes |-> ..] or [ok |-> FALSE, bytes |-> <<>>]
\* (a DecodeError).  Errors: a byte outside the alphabet (or '=' before a
\* symbol); '=' in the first two places of a quad; a length that leaves a
\* lone symbol; a last symbol with bits that belong to no byte.
B64Decode(s) ==
    LET n == Len(s)
        m == n - PadCount(s)
        v == [i \in 1..m |-> B64Val(s[i])]
        tailOk == IF m % 4 = 2 THEN v[m] % 16 = 0
                  ELSE IF m % 4 = 3 THEN v[m] % 4 = 0
                  ELSE TRUE
        ok == /\ n % 4 # 1
              /\ m % 4 # 1
              /\ \A i \in 1..m : v[i] # -1
              /\ \A i \in (m + 1)..n : (i - 1) % 4 >= 2
              /\ tailOk
    IN  IF ok THEN [ok |-> TRUE, bytes |-> B64Bytes(v)]
        ELSE [ok |-> FALSE, bytes |-> <<>>]

-----------------------------------------------------------------------------
(* UTF-8 validation, as String::from_utf8 performs it.                     *)

IsCont(x) == x >= 128 /\ x <= 191

RECURSIVE IsUtf8(_)
IsUtf8(b) ==
    IF Len(b) = 0 THEN TRUE
    ELSE LET x == b[1]
             n == Len(b)
             rest(k) == SubSeq(b, k + 1, n)
         IN  IF x < 128 THEN IsUtf8(rest(1))
             ELSE IF x >= 194 /\ x <= 223 THEN
                 n >= 2 /\ IsCont(b[2]) /\ IsUtf8(rest(2))
             ELSE IF x >= 224 /\ x <= 239 THEN
                 /\ n >= 3
                 /\ IsCont(b[2]) /\ IsCont(b[3])
                 /\ (x = 224 => b[2] >= 160)
                 /\ (x = 237 => b[2] <= 159)
                 /\ IsUtf8(rest(3))
             ELSE IF x >= 240 /\ x <= 244 THEN
                 /\ n >= 4
                 /\ IsCont(b[2]) /\ IsCont(b[3]) /\ IsCont(b[4])
                 /\ (x = 240 => b[2] >= 144)
                 /\ (x = 244 => b[2] <= 143)
                 /\ IsUtf8(rest(4))
             ELSE FALSE

-----------------------------------------------------------------------------
(* Inputs of the response builder.                                         *)

\* bytes of the files handed to new_file / body_file: 'B' and 'M'
FileBytes == {66, 77}

\* a file longer than the sniffing sample: BM followed by M's
LongFile == [i \in 1..LongFileLen |-> IF i = 1 THEN 66 ELSE 77]

Files == SeqsUpTo(FileBytes, MaxFileLen) \cup {LongFile}

\* {"ok":true}
JsonOk == <<123, 34, 111, 107, 34, 58, 116, 114, 117, 101, 125>>

\* the texts handed to the builder: "", {"ok":true}, "hi!" and "QQ=="
Texts == { <<>>, JsonOk, <<104, 105, 33>>, <<81, 81, 61, 61>> }

\* status codes (u16) handed to new_status / status_code
Codes == {200, 201, 404, 599, 65535}

HeaderKeys == {"Content-Type", "X-Trace"}

HeaderValues == {"abc", "text/css"}

\* MIME strings handed to body(text, is_base64, mime)
Mimes == {"text/css"}

-----------------------------------------------------------------------------
(* http::Response (src/src/http/resp.rs).                                  *)

\* #[derive(Default)]: the value before any constructor has run
DefaultResponse ==
    [is_base64encoded |-> FALSE, status_code |-> 0, body |-> <<>>,
     headers |-> EmptyMap]

\* the sample length limit of the content sniffing
SniffLen == 31

\* b.get(0..min(31, b.len() - 1)): None when the range leaves the vector.
\* For an empty vector 0 - 1 wraps to usize::MAX in a release build, so the
\* range is 0..31 (a debug build panics at the subtraction itself).
SniffSample(b) ==
    LET end == IF Len(b) = 0 THEN SniffLen ELSE Min(SniffLen, Len(b) - 1)
    IN  IF end > Len(b) THEN None ELSE Some(SubSeq(b, 1, end))

\* infer::get: the MIME type of a signature at the head of the sample.
\* Over FileBytes only one signature of the crate occurs, BMP:
\* buf.len() > 1 && buf[0] == 0x42 && buf[1] == 0x4D.
infer_get(buf) ==
    IF Len(buf) > 1 /\ buf[1] = 66 /\ buf[2] = 77 THEN Some("image/bmp")
    ELSE None

\* the Content-Type that new_file and body_file pick for a sample
SniffedType(sample) ==
    LET mime == infer_get(sample)
    IN  IF mime # None THEN mime[1] ELSE "application/octet-stream"

\* a result of a call that may panic
Returned(v) == [panic |-> FALSE, value |-> v]

Panicked == [panic |-> TRUE, value |-> DefaultResponse]

Response_new_file(b) ==
    LET sample == SniffSample(b)
    IN  IF sample = None THEN Panicked   \* .unwrap() on None
        ELSE Returned(
            [is_base64encoded |-> TRUE,
             status_code |-> 200,
             body |-> B64Encode(b),
             headers |-> Insert(EmptyMap, "Content-Type", SniffedType(sample[1]))])

Response_new_html(b) ==
    [is_base64encoded |-> FALSE, status_code |-> 200, body |-> b,
     headers |-> Insert(EmptyMap, "Content-Type", "text/html; charset=utf-8")]

\* new_json with the Content-Type of new_text, as a copied constructor would have
Response_new_json_TextType(b) ==
    [is_base64encoded |-> FALSE, status_code |-> 200, body |-> b,
     headers |-> Insert(EmptyMap, "Content-Type", "text/plain; charset=utf-8")]

Response_new_json(b) ==
    [is_base64encoded |-> FALSE, status_code |-> 200, body |-> b,
     headers |-> Insert(EmptyMap, "Content-Type", "application/json")]

Response_new_text(b) ==
    [is_base64encoded |-> FALSE, status_code |-> 200, body |-> b,
     headers |-> Insert(EmptyMap, "Content-Type", "text/plain; charset=utf-8")]

\* "An unknown error occurred"
UnknownStatusText ==
    <<65, 110, 32, 117, 110, 107, 110, 111, 119, 110, 32, 101, 114, 114, 111,
      114, 32, 111, 99, 99, 117, 114, 114, 101, 100>>

\* utils::status_code::meaning: the reason phrase of a status code, None for
\* a code outside the table.  Rows: 200 OK, 201 Created, 404 Not Found,
\* 500 Internal Server Error.
meaning(s) ==
    IF s = 200 THEN Some(<<79, 75>>)
    ELSE IF s = 201 THEN Some(<<67, 114, 101, 97, 116, 101, 100>>)
    ELSE IF s = 404 THEN Some(<<78, 111, 116, 32, 70, 111, 117, 110, 100>>)
    ELSE IF s = 500 THEN
        Some(<<73, 110, 116, 101, 114, 110, 97, 108, 32, 83, 101, 114, 118,
               101, 114, 32, 69, 114, 114, 111, 114>>)
    ELSE None

\* Option::unwrap_or
unwrap_or(o, d) == IF o = None THEN d ELSE o[1]

\* new_status with the fallback text forgotten: an unknown code gets ""
Response_new_status_NoFallback(s) ==
    [is_base64encoded |-> FALSE, status_code |-> s,
     body |-> unwrap_or(meaning(s), <<>>),
     headers |-> Insert(EmptyMap, "Content-Type", "text/plain; charset=utf-8")]

Response_new_status(s) ==
    [is_base64encoded |-> FALSE, status_code |-> s,
     body |-> unwrap_or(meaning(s), UnknownStatusText),
     headers |-> Insert(EmptyMap, "Content-Type", "text/plain; charset=utf-8")]

\* header that keeps the value a key already has (entry().or_insert())
Response_header_FirstWins(self, k, v) ==
    IF k \in DOMAIN self.headers THEN self
    ELSE [self EXCEPT !.headers = Insert(self.headers, k, v)]

Response_header(self, k, v) ==
    [self EXCEPT !.headers = Insert(self.headers, k, v)]

\* status_code that also replaces the body by the reason phrase, as new_status does
Response_status_code_SetsBody(self, s) ==
    [self EXCEPT !.status_code = s,
                 !.body = unwrap_or(meaning(s), UnknownStatusText)]

Response_status_code(self, s) ==
    [self EXCEPT !.status_code = s]

\* body_text with the reset of the flag forgotten
Response_body_text_KeepsFlag(self, b) ==
    [self EXCEPT
        !.headers = Insert(self.headers, "Content-Type", "text/plain; charset=utf-8"),
        !.body = b]

Response_body_text(self, b) ==
    [self EXCEPT
        !.headers = Insert(self.headers, "Content-Type", "text/plain; charset=utf-8"),
        !.body = b,
        !.is_base64encoded = FALSE]

Response_body_json(self, b) ==
    [self EXCEPT
        !.headers = Insert(self.headers, "Content-Type", "application/json"),
        !.body = b,
        !.is_base64encoded = FALSE]

\* body_html that starts the header map afresh, as the constructors do
Response_body_html_NewHeaders(self, b) ==
    [self EXCEPT
        !.headers = Insert(EmptyMap, "Content-Type", "text/html; charset=utf-8"),
        !.body = b,
        !.is_base64encoded = FALSE]

Response_body_html(self, b) ==
    [self EXCEPT
        !.headers = Insert(self.headers, "Content-Type", "text/html; charset=utf-8"),
        !.body = b,
        !.is_base64encoded = FALSE]

Response_body_file(self, b) ==
    LET sample == SniffSample(b)
    IN  IF sample = None THEN Panicked   \* .unwrap() on None
        ELSE Returned(
            [self EXCEPT
                !.headers = Insert(self.headers, "Content-Type", SniffedType(sample[1])),
                !.body = B64Encode(b),
                !.is_base64encoded = TRUE])

\* body that leaves the Content-Type header as it was
Response_body_KeepsType(self, text, base64_encoded, mime_type) ==
    [self EXCEPT !.body = text, !.is_base64encoded = base64_encoded]

Response_body(self, text, base64_encoded, mime_type) ==
    [self EXCEPT
        !.headers = Insert(self.headers, "Content-Type", mime_type),
        !.body = text,
        !.is_base64encoded = base64_encoded]

-----------------------------------------------------------------------------
(* The request accessors (src/src/http/req.rs, src/src/auth/req.rs).       *)

Ok(v) == [tag |-> "Ok", value |-> v, error |-> "none"]

Err(e) == [tag |-> "Err", value |-> None, error |-> e]

\* body() that skips the UTF-8 check of the decoded bytes
Request_body_NoUtf8Check(self) ==
    IF self.body = None THEN Ok(None)
    ELSE IF ~self.is_base64encoded THEN Ok(self.body)
    ELSE LET result == B64Decode(self.body[1])
         IN  IF ~result.ok THEN Err("Base64DecodeError")
             ELSE Ok(Some(result.bytes))

\* http::Request::body
Request_body(self) ==
    IF self.body = None THEN Ok(None)
    ELSE IF ~self.is_base64encoded THEN Ok(self.body)
    ELSE LET result == B64Decode(self.body[1])
         IN  IF ~result.ok THEN Err("Base64DecodeError")
             ELSE IF ~IsUtf8(result.bytes) THEN Err("FromUtf8Error")
             ELSE Ok(Some(result.bytes))

\* body_binary() that looks at the flag before it looks for the body
Request_body_binary_FlagFirst(self) ==
    IF self.is_base64encoded THEN
        LET result == B64Decode(unwrap_or(self.body, <<>>))
        IN  IF ~result.ok THEN Err("DecodeError") ELSE Ok(Some(result.bytes))
    ELSE IF self.body = None THEN Ok(None)
    ELSE Ok(Some(self.body[1]))

\* http::Request::body_binary
Request_body_binary(self) ==
    IF self.body = None THEN Ok(None)
    ELSE IF ~self.is_base64encoded THEN Ok(Some(self.body[1]))
    ELSE LET result == B64Decode(self.body[1])
         IN  IF ~result.ok THEN Err("DecodeError")
             ELSE Ok(Some(result.bytes))

\* http::RequestSimple::body
RequestSimple_body(self) ==
    IF self.body = None THEN Ok(None)
    ELSE IF ~self.is_base64encoded THEN Ok(self.body)
    ELSE LET result == B64Decode(self.body[1])
         IN  IF ~result.ok THEN Err("Base64DecodeError")
             ELSE IF ~IsUtf8(result.bytes) THEN Err("FromUtf8Error")
             ELSE Ok(Some(result.bytes))

\* body_binary() that goes through the text: the decoded bytes must be UTF-8
RequestSimple_body_binary_ViaText(self) ==
    IF self.body = None THEN Ok(None)
    ELSE IF ~self.is_base64encoded THEN Ok(Some(self.body[1]))
    ELSE LET result == B64Decode(self.body[1])
         IN  IF ~result.ok THEN Err("DecodeError")
             ELSE IF ~IsUtf8(result.bytes) THEN Err("FromUtf8Error")
             ELSE Ok(Some(result.bytes))

\* http::RequestSimple::body_binary
RequestSimple_body_binary(self) ==
    IF self.body = None THEN Ok(None)
    ELSE IF ~self.is_base64encoded THEN Ok(Some(self.body[1]))
    ELSE LET result == B64Decode(self.body[1])
         IN  IF ~result.ok THEN Err("DecodeError")
             ELSE Ok(Some(result.bytes))

\* the separator of c.split("=")
CookieSep == 61

RECURSIVE Split(_, _)
\* str::split(sep).collect(): the pieces between the occurrences of sep
Split(c, sep) ==
    IF \A i \in 1..Len(c) : c[i] # sep THEN << c >>
    ELSE LET i == CHOOSE j \in 1..Len(c) :
                      c[j] = sep /\ \A k \in 1..(j - 1) : c[k] # sep
         IN  << SubSeq(c, 1, i - 1) >> \o Split(SubSeq(c, i + 1, Len(c)), sep)

RECURSIVE CookieLoop_FirstEq(_, _)
\* the loop with splitn(2, "="): an entry is split at its first '='
CookieLoop_FirstEq(cs, result) ==
    IF Len(cs) = 0 THEN result
    ELSE LET spl == Split(cs[1], CookieSep)
             n == Len(spl[1])
         IN  IF Len(spl) < 2 THEN CookieLoop_FirstEq(Tail(cs), result)
             ELSE CookieLoop_FirstEq(Tail(cs),
                      Insert(result, spl[1], SubSeq(cs[1], n + 2, Len(cs[1]))))

RECURSIVE CookieLoop(_, _)
\* the loop of cookies(): for c in cs { split; skip unless 2 parts; insert }.
\* The four request types each carry their own copy of it, the same text.
CookieLoop(cs, result) ==
    IF Len(cs) = 0 THEN result
    ELSE LET spl == Split(cs[1], CookieSep)
         IN  IF Len(spl) # 2 THEN CookieLoop(Tail(cs), result)
             ELSE CookieLoop(Tail(cs), Insert(result, spl[1], spl[2]))

\* http::Request::cookies
Request_cookies(self) ==
    IF self.cookies = None THEN None
    ELSE Some(CookieLoop(self.cookies[1], EmptyMap))

\* http::RequestSimple::cookies
RequestSimple_cookies(self) ==
    IF self.cookies = None THEN None
    ELSE Some(CookieLoop(self.cookies[1], EmptyMap))

\* auth::Request::cookies
AuthRequest_cookies(self) ==
    IF self.cookies = None THEN None
    ELSE Some(CookieLoop(self.cookies[1], EmptyMap))

\* auth::RequestSimple::cookies
AuthRequestSimple_cookies(self) ==
    IF self.cookies = None THEN None
    ELSE Some(CookieLoop(self.cookies[1], EmptyMap))

\* The projections below are written once: http::Request, http::RequestSimple,
\* auth::Request and auth::RequestSimple each carry the same text for them.

\* path(): self.request_context.http.path.clone()
Request_path(self) == self.request_context.http.path

\* headers(): self.headers.clone()
Request_headers(self) == self.headers

\* queries(): self.query_string_parameters.clone()
Request_queries(self) == self.query_string_parameters

\* params(): self.path_parameters.clone()
Request_params(self) == self.path_parameters

\* stage(): self.request_context.stage.clone()
Request_stage(self) == self.request_context.stage

\* a point in time or a time span: whole seconds and nanoseconds below one
UNIX_EPOCH == [secs |-> 0, nanos |-> 0]

\* Duration::from_millis
Duration_from_millis(millis) ==
    [secs |-> millis \div 1000, nanos |-> (millis % 1000) * 1000000]

\* SystemTime + Duration, with the carry of the nanoseconds
SystemTime_add(t, d) ==
    LET n == t.nanos + d.nanos
    IN  [secs |-> t.secs + d.secs + n \div 1000000000, nanos |-> n % 1000000000]

\* time(): UNIX_EPOCH + Duration::from_millis(self.request_context.time_epoch)
Request_time(self) ==
    SystemTime_add(UNIX_EPOCH, Duration_from_millis(self.request_context.time_epoch))

\* method(): self.request_context.http.method.clone()
Request_method(self) == self.request_context.http.method

\* ip(): self.request_context.http.source_ip.clone()
Request_ip(self) == self.request_context.http.source_ip

\* ua(): self.request_context.http.user_agent.clone()
Request_ua(self) == self.request_context.http.user_agent

\* protocol(): self.request_context.http.protocol.clone()
Request_protocol(self) == self.request_context.http.protocol

------------------------------------------------------------------------------
(* The authorizer response and the example authorizer                      *)
(* (src/src/auth/resp.rs, src/src/bin/auth-example.rs).                    *)

AuthResponse_new(is_authorized, context) ==
    [is_authorized |-> is_authorized, context |-> context]

AuthResponse_new_nc(is_authorized) ==
    [is_authorized |-> is_authorized, context |-> EmptyMap]

\* the handler of auth-example: a match on the path of the payload
func(payload) ==
    LET path == Request_path(payload)
    IN  CASE path = "/" -> Ok(AuthResponse_new_nc(TRUE))
          [] path = "/pass" -> Ok(AuthResponse_new_nc(TRUE))
          [] path = "/pass_with_context" ->
                Ok(AuthResponse_new(TRUE,
                    Insert(Insert(EmptyMap, "type", "sudo"), "user_type", "admin")))
          [] path = "/deny" -> Ok(AuthResponse_new_nc(FALSE))
          [] path = "/deny_with_context" ->
                Ok(AuthResponse_new(TRUE,
                    Insert(Insert(EmptyMap, "type", "failed"), "user_type", "visitor")))
          [] OTHER -> Ok(AuthResponse_new_nc(TRUE))

-----------------------------------------------------------------------------
(* Requests delivered to a handler.                                        *)

HttpKinds == {"http::Request", "http::RequestSimple"}

AuthKinds == {"auth::Request", "auth::RequestSimple"}

\* raw cookie entries: a=1, a=2, b=2, malformed, c=3=4, d=
CookieEntries ==
    { <<97, 61, 49>>, <<97, 61, 50>>, <<98, 61, 50>>,
      <<109, 97, 108, 102, 111, 114, 109, 101, 100>>,
      <<99, 61, 51, 61, 52>>, <<100, 61>> }

CookieLists == SeqsUpTo(CookieEntries, MaxCookies)

OptCookies == {None} \cup {Some(cs) : cs \in CookieLists}

\* characters of a stored body: 'w', '6', 'k', '/', '=', '!'
BodyChars == {119, 54, 107, 47, 61, 33}

Bodies == SeqsUpTo(BodyChars, MaxBodyLen)

\* an http request: kind, cookie list, body and flag
HttpRequest(k, cs, body, f) ==
    [kind |-> k, cookies |-> cs, body |-> body, is_base64encoded |-> f]

\* an authorizer request: it carries no body
AuthRequest(k, cs) == [kind |-> k, cookies |-> cs]

\* paths of the routes of the example authorizer, and one it does not name
Paths ==
    {"/", "/pass", "/pass_with_context", "/deny", "/deny_with_context", "/other"}

\* the callers: method, protocol, address and agent of common::Http
Clients ==
    { [method |-> "GET", protocol |-> "HTTP/1.1", source_ip |-> "192.0.2.1",
       user_agent |-> "curl/8.0"],
      [method |-> "POST", protocol |-> "HTTP/2.0", source_ip |-> "2001:db8::1",
       user_agent |-> ""] }

\* stage and time_epoch (milliseconds) of common::RequestContext
Deployments ==
    { [stage |-> "$default", time_epoch |-> 0],
      [stage |-> "prod", time_epoch |-> 1999] }

\* common::RequestContext / RequestContextSimple, the fields an accessor reads
RequestContext(c, d, path) ==
    [http |-> [method |-> c.method, path |-> path, protocol |-> c.protocol,
               source_ip |-> c.source_ip, user_agent |-> c.user_agent],
     stage |-> d.stage, time_epoch |-> d.time_epoch]

\* headers, query string parameters and path parameters of a request
MapFields ==
    { [headers |-> EmptyMap, query_string_parameters |-> None,
       path_parameters |-> None],
      [headers |-> Insert(EmptyMap, "host", "example.org"),
       query_string_parameters |-> Some(Insert(EmptyMap, "q", "1")),
       path_parameters |-> None],
      [headers |-> Insert(EmptyMap, "host", "example.org"),
       query_string_parameters |-> Some(EmptyMap),
       path_parameters |-> Some(Insert(EmptyMap, "id", "7"))] }

\* cookie lists of an event: none, or a=1 followed by a=2
EventCookies == { None, Some(<< <<97, 61, 49>>, <<97, 61, 50>> >>) }

\* body and flag of an event: no body, w6k= under the flag (base64 of a
\* two-byte character), and ! under the flag (not base64)
EventBodies ==
    { [body |-> None, is_base64encoded |-> FALSE],
      [body |-> Some(<<119, 54, 107, 61>>), is_base64encoded |-> TRUE],
      [body |-> Some(<<33>>), is_base64encoded |-> TRUE] }

\* an http event with every field an accessor reads
HttpEvent(k, cs, b, m, ctx) ==
    [kind |-> k, cookies |-> cs, headers |-> m.headers,
     query_string_parameters |-> m.query_string_parameters,
     path_parameters |-> m.path_parameters, request_context |-> ctx,
     body |-> b.body, is_base64encoded |-> b.is_base64encoded]

\* an authorizer event with every field an accessor reads
AuthEvent(k, cs, m, ctx) ==
    [kind |-> k, cookies |-> cs, headers |-> m.headers,
     query_string_parameters |-> m.query_string_parameters,
     path_parameters |-> m.path_parameters, request_context |-> ctx]

\* #[derive(Default)] of http::Request, the value before an event arrives
DefaultRequest ==
    [kind |-> "http::Request", cookies |-> None, body |-> None,
     is_base64encoded |-> FALSE]

-----------------------------------------------------------------------------
(* State machine of the response builder.                                  *)

\* the call most recently made on the builder, with its arguments
NoCall ==
    [op |-> "none", bytes |-> <<>>, text |-> <<>>, base64_encoded |-> FALSE,
     mime_type |-> "", k |-> "", v |-> "", s |-> 0]

Call(op) == [NoCall EXCEPT !.op = op]

InitResp ==
    /\ pc = "start"
    /\ resp = DefaultResponse
    /\ last = NoCall

\* an accessor call the handler made earlier and kept the result of
NoMemo == [acc |-> "none", result |-> None]

InitReq ==
    /\ rpc = "idle"
    /\ req = DefaultRequest
    /\ called = "none"
    /\ ret = None
    /\ memo = NoMemo

Init == InitResp /\ InitReq

\* a call that may panic: the value is built, or the handler dies
Finish(r) ==
    IF r.panic THEN pc' = "panicked" /\ resp' = resp
    ELSE pc' = "built" /\ resp' = r.value

NewFile ==
    /\ pc = "start"
    /\ \E b \in Files :
        /\ Finish(Response_new_file(b))
        /\ last' = [Call("new_file") EXCEPT !.bytes = b]
    /\ UNCHANGED reqVars

NewHtml ==
    /\ pc = "start"
    /\ \E b \in Texts :
        /\ resp' = Response_new_html(b)
        /\ last' = [Call("new_html") EXCEPT !.text = b]
    /\ pc' = "built"
    /\ UNCHANGED reqVars

NewJson ==
    /\ pc = "start"
    /\ \E b \in Texts :
        /\ resp' = Response_new_json(b)
        /\ last' = [Call("new_json") EXCEPT !.text = b]
    /\ pc' = "built"
    /\ UNCHANGED reqVars

NewText ==
    /\ pc = "start"
    /\ \E b \in Texts :
        /\ resp' = Response_new_text(b)
        /\ last' = [Call("new_text") EXCEPT !.text = b]
    /\ pc' = "built"
    /\ UNCHANGED reqVars

NewStatus ==
    /\ pc = "start"
    /\ \E s \in Codes :
        /\ resp' = Response_new_status(s)
        /\ last' = [Call("new_status") EXCEPT !.s = s]
    /\ pc' = "built"
    /\ UNCHANGED reqVars

Header ==
    /\ pc = "built"
    /\ \E k \in HeaderKeys, v \in HeaderValues :
        /\ resp' = Response_header(resp, k, v)
        /\ last' = [Call("header") EXCEPT !.k = k, !.v = v]
    /\ UNCHANGED <<pc, reqVars>>

StatusCode ==
    /\ pc = "built"
    /\ \E s \in Codes :
        /\ resp' = Response_status_code(resp, s)
        /\ last' = [Call("status_code") EXCEPT !.s = s]
    /\ UNCHANGED <<pc, reqVars>>

BodyText ==
    /\ pc = "built"
    /\ \E b \in Texts :
        /\ resp' = Response_body_text(resp, b)
        /\ last' = [Call("body_text") EXCEPT !.text = b]
    /\ UNCHANGED <<pc, reqVars>>

BodyJson ==
    /\ pc = "built"
    /\ \E b \in Texts :
        /\ resp' = Response_body_json(resp, b)
        /\ last' = [Call("body_json") EXCEPT !.text = b]
    /\ UNCHANGED <<pc, reqVars>>

BodyHtml ==
    /\ pc = "built"
    /\ \E b \in Texts :
        /\ resp' = Response_body_html(resp, b)
        /\ last' = [Call("body_html") EXCEPT !.text = b]
    /\ UNCHANGED <<pc, reqVars>>

BodyFile ==
    /\ pc = "built"
    /\ \E b \in Files :
        /\ Finish(Response_body_file(resp, b))
        /\ last' = [Call("body_file") EXCEPT !.bytes = b]
    /\ UNCHANGED reqVars

Body ==
    /\ pc = "built"
    /\ \E text \in Texts, base64_encoded \in BOOLEAN, mime_type \in Mimes :
        /\ resp' = Response_body(resp, text, base64_encoded, mime_type)
        /\ last' = [Call("body") EXCEPT !.text = text,
                        !.base64_encoded = base64_encoded,
                        !.mime_type = mime_type]
    /\ UNCHANGED <<pc, reqVars>>

Next ==
    \/ NewFile \/ NewHtml \/ NewJson \/ NewText \/ NewStatus
    \/ Header \/ StatusCode
    \/ BodyText \/ BodyJson \/ BodyHtml \/ BodyFile \/ Body

Spec == Init /\ [][Next]_vars

-----------------------------------------------------------------------------
(* State machine of a handler reading its request.                         *)

\* the event is deserialized into the request, once: an http request with
\* any cookie list and no body, or with a body and no cookie list, under
\* either flag, or an authorizer request with any cookie list
Receive ==
    /\ rpc = "idle"
    /\ \/ \E k \in HttpKinds, cs \in OptCookies, f \in BOOLEAN :
            req' = HttpRequest(k, cs, None, f)
       \/ \E k \in HttpKinds, b \in Bodies, f \in BOOLEAN :
            req' = HttpRequest(k, None, Some(b), f)
       \/ \E k \in AuthKinds, cs \in OptCookies :
            req' = AuthRequest(k, cs)
    /\ rpc' = "ready"
    /\ UNCHANGED <<called, ret, memo, respVars>>

\* the handler keeps the result of the call it makes, or does not
Remember(acc) ==
    \E keep \in BOOLEAN :
        memo' = IF keep THEN [acc |-> acc, result |-> ret'] ELSE memo

CallBody ==
    /\ rpc = "ready"
    /\ req.kind \in HttpKinds
    /\ ret' = IF req.kind = "http::Request" THEN Request_body(req)
              ELSE RequestSimple_body(req)
    /\ called' = "body"
    /\ Remember("body")
    /\ UNCHANGED <<rpc, req, respVars>>

CallBodyBinary ==
    /\ rpc = "ready"
    /\ req.kind \in HttpKinds
    /\ ret' = IF req.kind = "http::Request" THEN Request_body_binary(req)
              ELSE RequestSimple_body_binary(req)
    /\ called' = "body_binary"
    /\ Remember("body_binary")
    /\ UNCHANGED <<rpc, req, respVars>>

\* cookies() that moves the cookie list out of the request (Option::take)
CallCookies_Take ==
    /\ rpc = "ready"
    /\ ret' = Request_cookies(req)
    /\ called' = "cookies"
    /\ Remember("cookies")
    /\ req' = [req EXCEPT !.cookies = None]
    /\ UNCHANGED <<rpc, respVars>>

CallCookies ==
    /\ rpc = "ready"
    /\ ret' = CASE req.kind = "http::Request" -> Request_cookies(req)
                [] req.kind = "http::RequestSimple" -> RequestSimple_cookies(req)
                [] req.kind = "auth::Request" -> AuthRequest_cookies(req)
                [] OTHER -> AuthRequestSimple_cookies(req)
    /\ called' = "cookies"
    /\ Remember("cookies")
    /\ UNCHANGED <<rpc, req, respVars>>

ReqNext == Receive \/ CallBody \/ CallBodyBinary \/ CallCookies

ReqSpec == Init /\ [][ReqNext]_vars

------------------------------------------------------------------------------
(* State machine of a handler that reads every field of its event.         *)

\* the runtime deserializes the event of one invocation
ReceiveEvent ==
    /\ rpc = "idle"
    /\ \E c \in Clients, d \in Deployments, path \in Paths,
          m \in MapFields, cs \in EventCookies :
          \/ \E k \in HttpKinds, b \in EventBodies :
                req' = HttpEvent(k, cs, b, m, RequestContext(c, d, path))
          \/ \E k \in AuthKinds :
                req' = AuthEvent(k, cs, m, RequestContext(c, d, path))
    /\ rpc' = "ready"
    /\ UNCHANGED <<called, ret, memo, respVars>>

\* a call of an accessor that takes &self and returns r
Answer(acc, r) ==
    /\ rpc = "ready"
    /\ ret' = r
    /\ called' = acc
    /\ Remember(acc)
    /\ UNCHANGED <<rpc, req, respVars>>

CallPath == Answer("path", Request_path(req))

CallHeaders == Answer("headers", Request_headers(req))

CallQueries == Answer("queries", Request_queries(req))

CallParams == Answer("params", Request_params(req))

CallStage == Answer("stage", Request_stage(req))

CallTime == Answer("time", Request_time(req))

CallMethod == Answer("method", Request_method(req))

CallIp == Answer("ip", Request_ip(req))

CallUa == Answer("ua", Request_ua(req))

CallProtocol == Answer("protocol", Request_protocol(req))

\* the example authorizer answers an auth::Event
Func ==
    /\ rpc = "ready"
    /\ req.kind = "auth::Request"
    /\ ret' = func(req)
    /\ called' = "func"
    /\ UNCHANGED <<rpc, req, memo, respVars>>

HandlerNext ==
    \/ ReceiveEvent
    \/ CallBody \/ CallBodyBinary \/ CallCookies
    \/ CallPath \/ CallHeaders \/ CallQueries \/ CallParams \/ CallStage
    \/ CallTime \/ CallMethod \/ CallIp \/ CallUa \/ CallProtocol
    \/ Func

HandlerSpec == Init /\ [][HandlerNext]_vars

-----------------------------------------------------------------------------
(* Claims about the response builder, checked under Spec.                  *)

\* the request-like payload a gateway would make of a response
AsRequest(r) ==
    [kind |-> "http::Request", cookies |-> None, body |-> Some(r.body),
     is_base64encoded |-> r.is_base64encoded]

\* the flag describes the body: decoding the body under the flag succeeds
FlagDescribesBody(r) == Request_body_binary(AsRequest(r)).tag = "Ok"

\* body(text, true, mime) called with a text that is not base64
BadBodyCall(c) ==
    c.op = "body" /\ c.base64_encoded /\ ~B64Decode(c.text).ok

\* C1, as claimed: in every Response built by a constructor and any sequence
\* of mutators, body(text, is_base64, mime) included, a true flag means the
\* body is valid base64.
C1_FlagDescribesBody == pc = "built" => FlagDescribesBody(resp)

\* C1, amended: every constructor returns a Response whose flag describes its
\* body, and every mutator call other than body(text, true, mime) with a text
\* that is not base64 maps such a Response to such a Response.
C1_FlagDescribesBody_Amended ==
    [][ (/\ pc' = "built"
         /\ pc = "built" => FlagDescribesBody(resp)
         /\ ~BadBodyCall(last'))
        => FlagDescribesBody(resp') ]_vars

\* C1 witness: body(text, true, mime) was called with base64 text on a
\* Response, and the flag is set
C1_Witness ==
    /\ pc = "built"
    /\ last.op = "body" /\ last.base64_encoded /\ Len(last.text) > 0
    /\ resp.is_base64encoded /\ B64Decode(resp.body).ok

\* C2, as claimed: new_file of the empty vector and of a one-byte vector
\* returns (no panic) a Response with Content-Type application/octet-stream.
C2_NewFileShortInput ==
    (last.op = "new_file" /\ Len(last.bytes) <= 1)
    => /\ pc = "built"
       /\ resp.headers["Content-Type"] = "application/octet-stream"

\* C3, as claimed: for every byte sequence b, new_file(b) returns r and
\* body_binary() on the request made of r.body and r.is_base64encoded
\* returns Ok(Some(b)).
C3_FileRoundTrip ==
    last.op = "new_file"
    => /\ pc = "built"
       /\ Request_body_binary(AsRequest(resp)) = Ok(Some(last.bytes))

\* C8: new_status(code) returns status_code = code, flag false, the single
\* header Content-Type: text/plain; charset=utf-8, and as body the reason
\* phrase of the code, or "An unknown error occurred" when the table has
\* none; so for 599.
C8_NewStatus ==
    last.op = "new_status"
    => /\ pc = "built"
       /\ resp.status_code = last.s
       /\ resp.is_base64encoded = FALSE
       /\ DOMAIN resp.headers = {"Content-Type"}
       /\ resp.headers["Content-Type"] = "text/plain; charset=utf-8"
       /\ resp.body = IF meaning(last.s) # None THEN meaning(last.s)[1]
                      ELSE UnknownStatusText
       /\ (last.s = 599 => resp.body = UnknownStatusText)

\* C8 witness: new_status(599) returned the fallback text
C8_Witness ==
    /\ last.op = "new_status" /\ last.s = 599
    /\ pc = "built" /\ resp.body = UnknownStatusText

\* what C9 expects of new_json(t).header(k, v).status_code(c)
C9_Expected(t, k, v, c) ==
    [status_code |-> c, is_base64encoded |-> FALSE, body |-> t,
     headers |-> [x \in {"Content-Type", k} |->
                     IF x = k THEN v ELSE "application/json"]]

\* C9: for a text t, a key k other than Content-Type, a value v and a code
\* c, new_json(t).header(k, v).status_code(c) is the Response with
\* status_code c, flag false, body t and the headers
\* {Content-Type: application/json, k: v}.
C9_JsonHeaderStatus ==
    [][ \A t \in Texts, k \in HeaderKeys \ {"Content-Type"}, v \in HeaderValues :
          (/\ resp = Response_header(Response_new_json(t), k, v)
           /\ last.op = "header" /\ last'.op = "status_code")
          => resp' = C9_Expected(t, k, v, last'.s) ]_vars

\* C9 witness: the instance of the specification,
\* new_json({"ok":true}).header(X-Trace, abc).status_code(201)
C9_Witness ==
    /\ last.op = "status_code"
    /\ resp = C9_Expected(JsonOk, "X-Trace", "abc", 201)

\* C10: status_code(code) changes the status_code field to code and nothing
\* else: body, flag and header map are those of the input.
C10_StatusCodeFrame ==
    [][ last'.op = "status_code"
        => /\ resp'.status_code = last'.s
           /\ resp'.body = resp.body
           /\ resp'.is_base64encoded = resp.is_base64encoded
           /\ resp'.headers = resp.headers ]_vars

\* C10 witness: status_code(404) was applied to a base64 Response carrying a
\* second header
C10_Witness ==
    /\ last.op = "status_code" /\ resp.status_code = 404
    /\ resp.is_base64encoded /\ Len(resp.body) > 0
    /\ "X-Trace" \in DOMAIN resp.headers

-----------------------------------------------------------------------------
(* Claims about the request accessors, checked under ReqSpec.              *)

\* the places of '=' in a raw cookie entry
EqPlaces(e) == {i \in 1..Len(e) : e[i] = 61}

\* an entry with exactly one '='
OneEq(e) == Cardinality(EqPlaces(e)) = 1

\* the text before, and after, the '=' of such an entry
CookieName(e) == SubSeq(e, 1, (CHOOSE i \in EqPlaces(e) : TRUE) - 1)

CookieValue(e) == SubSeq(e, (CHOOSE i \in EqPlaces(e) : TRUE) + 1, Len(e))

\* the places of the entries of cs with exactly one '='
Kept(cs) == {i \in 1..Len(cs) : OneEq(cs[i])}

\* the last place of cs whose entry has exactly one '=' and the name n
LastOf(cs, n) ==
    CHOOSE i \in Kept(cs) :
        /\ CookieName(cs[i]) = n
        /\ \A j \in Kept(cs) : CookieName(cs[j]) = n => j <= i

\* a=1, b=2, malformed, c=3=4
C4_Example ==
    << <<97, 61, 49>>, <<98, 61, 50>>,
       <<109, 97, 108, 102, 111, 114, 109, 101, 100>>, <<99, 61, 51, 61, 52>> >>

\* C4, as claimed: cookies() is None exactly when the cookie list is absent;
\* otherwise the map holds name -> value for precisely the entries with
\* exactly one '=', every other entry being dropped; on all four request
\* types.
C4_Cookies ==
    called = "cookies"
    => /\ ret = None <=> req.cookies = None
       /\ req.cookies # None =>
            LET cs == req.cookies[1]
                m == ret[1]
            IN  /\ DOMAIN m = {CookieName(cs[i]) : i \in Kept(cs)}
                /\ \A i \in Kept(cs) : m[CookieName(cs[i])] = CookieValue(cs[i])

\* C4, amended: as claimed, except that of several entries with exactly one
\* '=' and the same name the map holds the value of the last one.
C4_Cookies_Amended ==
    called = "cookies"
    => /\ ret = None <=> req.cookies = None
       /\ req.cookies # None =>
            LET cs == req.cookies[1]
                m == ret[1]
            IN  /\ DOMAIN m = {CookieName(cs[i]) : i \in Kept(cs)}
                /\ \A n \in DOMAIN m : m[n] = CookieValue(cs[LastOf(cs, n)])

\* C4 witness: cookies() on [a=1, b=2, malformed, c=3=4] returned {a: 1, b: 2}
C4_Witness ==
    /\ called = "cookies"
    /\ req.cookies = Some(C4_Example)
    /\ ret = Some([n \in {<<97>>, <<98>>} |-> IF n = <<97>> THEN <<49>> ELSE <<50>>])

\* C5: body() on an http request with a body: flag false gives Ok(Some(the
\* stored text)); flag true gives Err(Base64DecodeError) when the text is not
\* base64, Err(FromUtf8Error) when it decodes to bytes that are not UTF-8,
\* and Ok(Some(the decoded text)) otherwise; there is no other error.
C5_Body ==
    (called = "body" /\ req.body # None)
    => LET text == req.body[1]
           d == B64Decode(text)
       IN  /\ ~req.is_base64encoded => ret = Ok(Some(text))
           /\ (req.is_base64encoded /\ ~d.ok) => ret = Err("Base64DecodeError")
           /\ (req.is_base64encoded /\ d.ok /\ ~IsUtf8(d.bytes))
                  => ret = Err("FromUtf8Error")
           /\ (req.is_base64encoded /\ d.ok /\ IsUtf8(d.bytes))
                  => ret = Ok(Some(d.bytes))
           /\ ret.tag = "Err"
                  => ret.error \in {"Base64DecodeError", "FromUtf8Error"}

\* C5 witness: body() returned FromUtf8Error for a body that is base64
C5_Witness ==
    /\ called = "body" /\ req.body # None /\ req.is_base64encoded
    /\ B64Decode(req.body[1]).ok
    /\ ret = Err("FromUtf8Error")

\* C6: on an http request without a body, body() and body_binary() return
\* Ok(None) under either value of the flag.
C6_NoBody ==
    (called \in {"body", "body_binary"} /\ req.body = None) => ret = Ok(None)

\* C6 witness: body_binary() returned Ok(None) on a request with no body and
\* the flag set
C6_Witness ==
    /\ called = "body_binary" /\ req.body = None /\ req.is_base64encoded
    /\ ret = Ok(None)

\* C7: body_binary() on a request with a body: flag false gives Ok(Some(the
\* bytes of the stored text)); flag true gives the decoded bytes or the
\* decode error, never a UTF-8 error: where the decoded bytes are not UTF-8,
\* body() fails with FromUtf8Error and body_binary() succeeds.
C7_BodyBinary ==
    (called = "body_binary" /\ req.body # None)
    => LET text == req.body[1]
           d == B64Decode(text)
           asText == IF req.kind = "http::Request" THEN Request_body(req)
                     ELSE RequestSimple_body(req)
       IN  /\ ~req.is_base64encoded => ret = Ok(Some(text))
           /\ (req.is_base64encoded /\ d.ok) => ret = Ok(Some(d.bytes))
           /\ (req.is_base64encoded /\ ~d.ok) => ret = Err("DecodeError")
           /\ ret.error # "FromUtf8Error"
           /\ (req.is_base64encoded /\ d.ok /\ ~IsUtf8(d.bytes))
                  => asText = Err("FromUtf8Error") /\ ret.tag = "Ok"

\* C7 witness: body_binary() returned bytes that are not UTF-8
C7_Witness ==
    /\ called = "body_binary" /\ req.body # None /\ req.is_base64encoded
    /\ ret.tag = "Ok" /\ ~IsUtf8(ret.value[1])

-----------------------------------------------------------------------------
(* Further claims about the response builder, checked under Spec.          *)

\* the Content-Type that body_text, body_json and body_html are to set
C11_TextType(op) ==
    IF op = "body_text" THEN "text/plain; charset=utf-8"
    ELSE IF op = "body_json" THEN "application/json"
    ELSE "text/html; charset=utf-8"

\* every header of r other than Content-Type is in r2 with the same value,
\* and r2 has no key besides those of r and Content-Type
SameOtherHeaders(r, r2) ==
    /\ DOMAIN r2.headers = DOMAIN r.headers \cup {"Content-Type"}
    /\ \A k \in DOMAIN r.headers \ {"Content-Type"} : r2.headers[k] = r.headers[k]

\* C11: body_text(t), body_json(t) and body_html(t), applied to any Response,
\* give body = t, flag false and Content-Type text/plain; charset=utf-8,
\* application/json and text/html; charset=utf-8 respectively, and leave
\* status_code and every other header as they were.
C11_TextBodyFrame ==
    [][ last'.op \in {"body_text", "body_json", "body_html"}
        => /\ resp'.body = last'.text
           /\ resp'.is_base64encoded = FALSE
           /\ resp'.headers["Content-Type"] = C11_TextType(last'.op)
           /\ resp'.status_code = resp.status_code
           /\ SameOtherHeaders(resp, resp') ]_vars

\* C11 witness: body_html("hi!") was applied to a Response with status 404
\* and a second header
C11_Witness ==
    /\ last.op = "body_html" /\ last.text = <<104, 105, 33>>
    /\ resp.body = <<104, 105, 33>> /\ ~resp.is_base64encoded
    /\ resp.status_code = 404
    /\ "X-Trace" \in DOMAIN resp.headers
    /\ resp.headers["Content-Type"] = "text/html; charset=utf-8"

\* C12: header(k, v) is an upsert: afterwards the map has k -> v, every other
\* key keeps its value, and status, body and flag are unchanged; of two
\* calls with the same key the last wins: r.header(k, v1).header(k, v2) is
\* r.header(k, v2).
C12_HeaderUpsert ==
    [][ /\ last'.op = "header"
           => /\ resp'.headers[last'.k] = last'.v
              /\ DOMAIN resp'.headers = DOMAIN resp.headers \cup {last'.k}
              /\ \A x \in DOMAIN resp.headers \ {last'.k} :
                    resp'.headers[x] = resp.headers[x]
              /\ resp'.status_code = resp.status_code
              /\ resp'.body = resp.body
              /\ resp'.is_base64encoded = resp.is_base64encoded
        /\ pc = "built"
           => \A k \in HeaderKeys, v1 \in HeaderValues, v2 \in HeaderValues :
                 Response_header(Response_header(resp, k, v1), k, v2)
                    = Response_header(resp, k, v2) ]_vars

\* C12 witness: header(Content-Type, abc) overwrote the constructor's
\* Content-Type on a Response that carries a second header
C12_Witness ==
    /\ last.op = "header" /\ last.k = "Content-Type" /\ last.v = "abc"
    /\ resp.headers["Content-Type"] = "abc"
    /\ "X-Trace" \in DOMAIN resp.headers /\ resp.headers["X-Trace"] = "text/css"

\* the sample of the sniffing rule as the specification words it: the bytes
\* b[0 .. min(31, n-1)), empty when b is
ClaimedSample(b) == SubSeq(b, 1, Min(31, Len(b) - 1))

\* the Content-Type the sniffing rule gives a file
ClaimedFileType(b) == SniffedType(ClaimedSample(b))

\* C13, as claimed: body_file(b) returns for every b, the empty one included,
\* a Response with body base64(b), flag true and the Content-Type of the
\* sniffing rule of new_file, status and the other headers unchanged.
C13_BodyFileTotal ==
    [][ last'.op = "body_file"
        => /\ pc' = "built"
           /\ resp'.body = B64Encode(last'.bytes)
           /\ resp'.is_base64encoded = TRUE
           /\ resp'.headers["Content-Type"] = ClaimedFileType(last'.bytes)
           /\ resp'.status_code = resp.status_code
           /\ SameOtherHeaders(resp, resp') ]_vars

\* C14, as claimed: new_file(b) returns for b of every length n status 200,
\* flag true, body base64(b) and the single header Content-Type with the
\* sniffer's result on b[0 .. min(31, n-1)), else application/octet-stream;
\* the sample has at most 31 bytes and for n <= 31 leaves out the last byte.
C14_NewFile ==
    last.op = "new_file"
    => /\ pc = "built"
       /\ resp.status_code = 200
       /\ resp.is_base64encoded = TRUE
       /\ resp.body = B64Encode(last.bytes)
       /\ DOMAIN resp.headers = {"Content-Type"}
       /\ SniffSample(last.bytes) = Some(ClaimedSample(last.bytes))
       /\ resp.headers["Content-Type"] = ClaimedFileType(last.bytes)
       /\ Len(ClaimedSample(last.bytes)) <= 31
       /\ Len(last.bytes) <= 31
          => ClaimedSample(last.bytes) = SubSeq(last.bytes, 1, Len(last.bytes) - 1)

\* the calls that set Content-Type: every constructor, every body_* / body
\* mutator, and header with the key Content-Type
SetsType(c) ==
    /\ c.op # "status_code"
    /\ c.op = "header" => c.k = "Content-Type"

\* the Content-Type such a call sets
TypeSet(c) ==
    IF c.op \in {"new_file", "body_file"} THEN ClaimedFileType(c.bytes)
    ELSE IF c.op \in {"new_html", "body_html"} THEN "text/html; charset=utf-8"
    ELSE IF c.op \in {"new_json", "body_json"} THEN "application/json"
    ELSE IF c.op \in {"new_text", "new_status", "body_text"}
         THEN "text/plain; charset=utf-8"
    ELSE IF c.op = "body" THEN c.mime_type
    ELSE c.v

\* C16: every Response a constructor or a mutator returns has the header
\* Content-Type; a mutator removes no header key; and the Content-Type value
\* is the one the step set when the step is a constructor, a body_* / body
\* mutator or header(Content-Type, v), and the previous one otherwise (so
\* it is always the value of the most recent such call).
C16_ContentTypeKept ==
    [][ pc' = "built"
        => /\ "Content-Type" \in DOMAIN resp'.headers
           /\ pc = "built" => DOMAIN resp.headers \subseteq DOMAIN resp'.headers
           /\ resp'.headers["Content-Type"] =
                 IF SetsType(last') THEN TypeSet(last')
                 ELSE resp.headers["Content-Type"] ]_vars

\* C16 witness: after header(Content-Type, abc) came calls that set no type,
\* the last of them status_code; the type is still abc
C16_Witness ==
    /\ pc = "built" /\ last.op = "status_code"
    /\ "X-Trace" \in DOMAIN resp.headers
    /\ resp.headers["Content-Type"] = "abc"

------------------------------------------------------------------------------
(* Claims about a handler that reads its event, checked under HandlerSpec. *)

Accessors ==
    {"path", "cookies", "headers", "queries", "params", "stage", "time",
     "method", "ip", "ua", "protocol", "body", "body_binary"}

\* C15: a call of an accessor leaves the request equal to what it was, and
\* returns what an earlier call of the same accessor returned (errors
\* included), whatever accessors were called in between.
C15_PureProjection ==
    [][ (rpc = "ready" /\ called' \in Accessors)
        => /\ req' = req
           /\ memo.acc = called' => ret' = memo.result ]_vars

\* C15 witness: body() returned on a second call the error kept from an
\* earlier one
C15_Witness ==
    /\ called = "body" /\ memo.acc = "body"
    /\ memo.result.tag = "Err" /\ ret = memo.result

\* C17, as claimed: the example authorizer answers /deny and
\* /deny_with_context with is_authorized = false and every other path with
\* true, and its context is non-empty exactly for the *_with_context paths.
C17_ExampleAuthorizer ==
    called = "func"
    => LET path == req.request_context.http.path
       IN  /\ ret.tag = "Ok"
           /\ ret.value.is_authorized
                 = (path \notin {"/deny", "/deny_with_context"})
           /\ (DOMAIN ret.value.context # {})
                 = (path \in {"/pass_with_context", "/deny_with_context"})

====
